---- MODULE Spec2Model ----
(***************************************************************************)
(* textalignsynth: the BS.1770 loudness meter (loudness.py) and the        *)
(* comment placement and mixing loop (pipeline.py).                        *)
(*                                                                         *)
(* Numbers.  Samples are integers.  A loudness value                       *)
(*     L = -0.691 + 10*log10(S)                                            *)
(* is carried by the argument S of the logarithm, as a fraction n/d:       *)
(* log10 is strictly increasing, so comparisons, max and equality of       *)
(* loudness values are those of the arguments, S = 0 is minus infinity,    *)
(* and subtracting 10 dB divides S by 10.  S is kept in the unit           *)
(* 1/(100*T_g*rate): the sum of squares of a block times the channel gain  *)
(* in hundredths (G[i]*z[i] = G100[i]*sumsq/(100*T_g*rate)).  All          *)
(* arithmetic is exact; floating-point rounding is not modelled.           *)
(***************************************************************************)
EXTENDS Integers, Sequences, FiniteSets, TLC

VARIABLES
    \* ---- LoudnessMeter driven alone (SpecLoud)
    lpc,            \* "ready" (a buffer to measure) | "measured"
    rate,           \* LoudnessMeter.rate
    data,           \* the caller's buffer: one sample sequence per channel
    threshold,      \* the threshold passed to measure_loudness
    result,         \* what measure_loudness returned (or raised)
    integ,          \* what _integrated_loudness returned, when the buffer is longer than a block
    loud0,          \* history: integ of the buffer before silence was appended
    len0,           \* history: its length in samples
    nSilent,        \* silent samples appended since
    \* ---- one meter called again and again, a call taken step by step (SpecPure)
    work,           \* input_data: the buffer that the call filters in place
    zi,             \* the delay lines of the two filter stages as the last call left them
    passed,         \* history: the caller's buffer as it was handed in
    first_call,     \* history: input and outcome of the meter's first call
    ncalls,         \* calls made on the meter
    \* ---- _momentary_loudness on buffers of growing length (SpecBlocks)
    blocks,         \* per gating block of the last call: its range and the samples summed
    \* ---- Commenter.__call__ (Spec, SpecNorm)
    pc,             \* position in __call__
    cfg,            \* the call's arguments
    x_resampled,    \* the original signal at the TTS rate, as padded so far
    x_loudness_global,
    comment_track,  \* per sample: the coefficient of each comment's gain
    padding_left,
    comments,       \* the entries of the comment list the loop has reached
    c_m,            \* the current clip
    n_m, n_m_end,
    norm,           \* the loudness values of the current normalisation
    placed,         \* history: where each accumulated clip was written
    calls,          \* history: how often each external primitive was called
    err,            \* the exception that ended the call, or "none"
    out,            \* what __call__ returned
    \* ---- _modify_comment_duration driven alone (SpecDur)
    dpc, dargs, dres

lvars == <<lpc, rate, data, threshold, result, integ, loud0, len0, nSilent,
           work, zi, passed, first_call, ncalls, blocks>>
cvars == <<pc, cfg, x_resampled, x_loudness_global, comment_track, padding_left,
           comments, c_m, n_m, n_m_end, norm, placed, calls, err, out>>
dvars == <<dpc, dargs, dres>>
vars == <<lvars, cvars, dvars>>

(***************************************************************************)
(* Bounds of the model                                                     *)
(***************************************************************************)
MaxLen == 5         \* samples of a mono or stereo buffer handed to the meter
MaxWide == 2        \* samples of a buffer of three to five channels
MaxSilent == 3      \* silent samples appended to it
MaxComments == 2    \* entries of a comment list
MaxClip == 3        \* samples of a clip handed to _modify_comment_duration alone

Rates == {5, 10}                \* LoudnessMeter(rate): samples per second
Samples == {0, 1, 4}            \* sample values of a meter input
ChannelCounts == 1 .. 5

(***************************************************************************)
(* Arithmetic helpers                                                      *)
(***************************************************************************)
Abs(a) == IF a < 0 THEN -a ELSE a

RECURSIVE GCD(_, _)
GCD(a, b) == IF b = 0 THEN a ELSE GCD(b, a % b)

\* Python round() and numpy.round of the fraction n/d (d > 0): to nearest, ties to even
RoundHalfEven(n, d) ==
    LET q == n \div d
        r == n - q * d
    IN  IF 2 * r < d THEN q
        ELSE IF 2 * r > d THEN q + 1
        ELSE IF q % 2 = 0 THEN q ELSE q + 1

\* int() of the non-negative fraction n/d
IntTrunc(n, d) == n \div d

\* numpy.ceil of the non-negative fraction n/d
Ceil(n, d) == (n + d - 1) \div d

RECURSIVE SumFrom(_, _)
SumFrom(s, i) == IF i > Len(s) THEN 0 ELSE s[i] + SumFrom(s, i + 1)

SeqSum(s) == SumFrom(s, 1)

\* the sequence f as an explicit tuple (each element evaluated once)
Tup(f) == f \o <<>>

Zeros(k) == [i \in 1 .. k |-> 0]

(***************************************************************************)
(* Loudness values                                                         *)
(***************************************************************************)
LV(n, d) == [k |-> "val", n |-> n, d |-> d]
NaN == [k |-> "nan", n |-> 0, d |-> 1]
NegInf == LV(0, 1)

\* a < b and a = b on floats: every comparison with not-a-number is false
LLt(a, b) == a.k = "val" /\ b.k = "val" /\ a.n * b.d < b.n * a.d
LEq(a, b) == a.k = "val" /\ b.k = "val" /\ a.n * b.d = b.n * a.d
LGt(a, b) == LLt(b, a)
LGe(a, b) == LLt(b, a) \/ LEq(a, b)

\* Python's max(a, b): b only if b > a
PyMax(a, b) == IF LGt(b, a) THEN b ELSE a

\* a - 10.0 (dB)
Minus10dB(a) == IF a.k = "val" THEN LV(a.n, 10 * a.d) ELSE a

(***************************************************************************)
(* K-weighting filter (pyloudnorm.iirfilter.IIRfilter, outside the         *)
(* repository): each stage is a causal linear filter started from zero     *)
(* state at every apply_filter call.  The stages stand in with integer     *)
(* taps: a shelf with unit gain at DC that boosts high frequencies and a   *)
(* high-pass that removes DC.                                              *)
(***************************************************************************)
HighShelf == <<2, -1>>
HighPass == <<1, -1>>

apply_filter(b, xs) ==
    Tup([k \in 1 .. Len(xs) |-> b[1] * xs[k] + b[2] * (IF k > 1 THEN xs[k - 1] ELSE 0)])

\* for filter_class, filter_stage in self._filters.items(): high_shelf, then high_pass
KWeight(xs) == apply_filter(HighPass, apply_filter(HighShelf, xs))

(***************************************************************************)
(* LoudnessMeter                                                           *)
(***************************************************************************)
G100 == <<100, 100, 100, 141, 141>>     \* G = [1.0, 1.0, 1.0, 1.41, 1.41]

\* -70 LKFS as a mean-square level in the model's amplitude unit
MS70 == 4

\* Gamma_a = -70.0 and the default threshold = -70.0, in the unit 1/(100*T_g*rate)
\* with T_g = 0.4: 100 * 0.4 * rate * MS70
Gamma_a(r) == LV(40 * r * MS70, 1)

NumChannels(d) == Len(d)
NumSamples(d) == Len(d[1])

\* numSamples > self.block_size * self.rate, block_size = 0.4
LongerThanBlock(numSamples, r) == 5 * numSamples > 2 * r

\* np.sum(np.square(ys[lower:upper])): the slice is cut at the end of the buffer
SumSq(ys, lower, upper) ==
    LET hi == IF upper < Len(ys) THEN upper ELSE Len(ys)
    IN  SeqSum(Tup([k \in 1 .. (IF hi > lower THEN hi - lower ELSE 0) |->
                       ys[lower + k] * ys[lower + k]]))

\* numBlocks = int(np.round((T - T_g) / (T_g * step)) + 1), T = numSamples / rate,
\* T_g = 0.4, step = 0.25
NumBlocks(numSamples, r) == RoundHalfEven(10 * numSamples - 4 * r, r) + 1

\* lower = int(T_g * (j * step) * rate), upper = int(T_g * (j * step + 1) * rate)
BlockLower(j, r) == IntTrunc(r * j, 10)
BlockUpper(j, r) == IntTrunc(r * (j + 4), 10)

Filtered(d) == Tup([i \in 1 .. NumChannels(d) |-> KWeight(d[i])])

\* z[i, j] of the multi-block branch (times T_g * rate) from the filtered channels f;
\* j counts from 1 here
BlockZOf(f, numBlocks, r) ==
    Tup([i \in 1 .. Len(f) |->
            Tup([j \in 1 .. numBlocks |->
                    SumSq(f[i], BlockLower(j - 1, r), BlockUpper(j - 1, r))])])

BlockZ(d, r) == BlockZOf(Filtered(d), NumBlocks(NumSamples(d), r), r)

\* sum(G[i] * z[i] for i in range(numChannels))
WeightedSum(zcol) == SeqSum(Tup([i \in 1 .. Len(zcol) |-> G100[i] * zcol[i]]))

\* the loudness of each block: -0.691 + 10 * log10(sum(G[i] * z[i, j] ...))
BlockLoudnessOf(z) ==
    Tup([j \in 1 .. Len(z[1]) |->
            LV(WeightedSum(Tup([i \in 1 .. Len(z) |-> z[i][j]])), 1)])

BlockLoudness(d, r) == BlockLoudnessOf(BlockZ(d, r))

\* z[i] of the single-block branch (times T_g * rate)
SingleZOf(f) == Tup([i \in 1 .. Len(f) |-> SumSq(f[i], 0, Len(f[i]))])

SingleZ(d) == SingleZOf(Filtered(d))

\* np.sum(G * z) with G a list of 5 and z an array of numChannels: numpy broadcasts
\* (5,) against (numChannels,): one channel is repeated against all five gains,
\* five channels pair up, any other count raises ValueError
BroadcastOk(numChannels) == numChannels = 1 \/ numChannels = 5
BroadcastSum(z) ==
    IF Len(z) = 1 THEN SeqSum(Tup([i \in 1 .. 5 |-> G100[i] * z[1]]))
    ELSE SeqSum(Tup([i \in 1 .. 5 |-> G100[i] * z[i]]))

\* _momentary_loudness, single-block branch: the scalar "lower"
SingleLoudness(d) == LV(BroadcastSum(SingleZ(d)), 1)

\* the sum over the blocks of J of one channel's z
RowSum(zrow, J) == SeqSum(Tup([j \in 1 .. Len(zrow) |-> IF j \in J THEN zrow[j] ELSE 0]))

\* np.mean([z[i, j] for j in J]) weighted and summed over the channels:
\* sum(G[i] * z_avg_gated[i]); not-a-number when J is empty
GatedMean(z, J) ==
    IF J = {} THEN NaN
    ELSE LV(WeightedSum(Tup([i \in 1 .. Len(z) |-> RowSum(z[i], J)])), Cardinality(J))

\* np.nan_to_num on the gated averages
nan_to_num(a) == IF a.k = "nan" THEN NegInf ELSE a

\* the mean taken over every block instead of the gated ones
FinalMeanUngated(z, J) ==
    IF J = {} THEN NegInf
    ELSE LV(GatedMean(z, J).n, Len(z[1]))

\* lines 108-120: the average over the blocks above both thresholds, coerced
FinalMean(z, J) == nan_to_num(GatedMean(z, J))

\* J_g = [j for j, l_j in enumerate(mom_loudness) if l_j >= Gamma_a]
AbsGate(l, ga) == {j \in 1 .. Len(l) : LGe(l[j], ga)}

\* J_g = [j ... if (l_j > Gamma_r and l_j > Gamma_a)]
RelGate(l, Gamma_r, ga) == {j \in 1 .. Len(l) : LGt(l[j], Gamma_r) /\ LGt(l[j], ga)}

\* Gamma_r = -0.691 + 10 * log10(sum(G[i] * z_avg_gated[i])) - 10.0
RelThreshold(z, l, ga) == Minus10dB(GatedMean(z, AbsGate(l, ga)))

IntegratedOfBlocks(z, l, ga) == FinalMean(z, RelGate(l, RelThreshold(z, l, ga), ga))

\* the gating of lines 90-122 on the block energies z, with absolute threshold ga
IntegratedOf(z, ga) == IntegratedOfBlocks(z, BlockLoudnessOf(z), ga)

_integrated_loudness(d, r) == IntegratedOf(BlockZ(d, r), Gamma_a(r))

ValueError == [k |-> "ValueError", n |-> 0, d |-> 1]

measure_loudness(d, r, thr) ==
    IF LongerThanBlock(NumSamples(d), r)
    THEN PyMax(_integrated_loudness(d, r), thr)
    ELSE IF BroadcastOk(NumChannels(d)) THEN PyMax(SingleLoudness(d), thr)
    ELSE ValueError

(***************************************************************************)
(* The meter driven alone: a caller measures a buffer, appends silence to  *)
(* it and measures again.                                                  *)
(***************************************************************************)
NoValue == [k |-> "none", n |-> 0, d |-> 1]

\* the thresholds a caller passes: the default -70.0, and -60.0
Thresholds(r) == {Gamma_a(r), LV(10 * Gamma_a(r).n, 1)}

SampleSeqs(maxLen) == UNION {[1 .. k -> Samples] : k \in 0 .. maxLen}

\* a buffer of c channels: the odd channels carry the samples, the even ones are silent
Channels(c, base) == [i \in 1 .. c |-> IF i % 2 = 1 THEN base ELSE Zeros(Len(base))]

Buffers ==
    {Channels(c, base) : c \in {c \in ChannelCounts : c <= 2}, base \in SampleSeqs(MaxLen)}
    \cup
    {Channels(c, base) : c \in {c \in ChannelCounts : c > 2}, base \in SampleSeqs(MaxWide)}

CommenterIdle ==
    /\ pc = "idle"
    /\ cfg = <<>>
    /\ x_resampled = <<>>
    /\ x_loudness_global = NoValue
    /\ comment_track = <<>>
    /\ padding_left = 0
    /\ comments = <<>>
    /\ c_m = <<>>
    /\ n_m = 0
    /\ n_m_end = 0
    /\ norm = <<>>
    /\ placed = <<>>
    /\ calls = <<>>
    /\ err = "none"
    /\ out = <<>>

DurationIdle ==
    /\ dpc = "idle"
    /\ dargs = <<>>
    /\ dres = <<>>

\* no call of the meter is taken step by step
NoFirst == [data |-> <<>>, threshold |-> NoValue, result |-> NoValue, between |-> 0]
CallsIdle ==
    /\ work = <<>>
    /\ zi = <<0, 0>>
    /\ passed = <<>>
    /\ first_call = NoFirst
    /\ ncalls = 0
    /\ blocks = <<>>

MeterIdle ==
    /\ lpc = "idle"
    /\ rate = 0
    /\ data = <<>>
    /\ threshold = NoValue
    /\ result = NoValue
    /\ integ = NoValue
    /\ loud0 = NoValue
    /\ len0 = 0
    /\ nSilent = 0
    /\ CallsIdle

LoudInit ==
    /\ lpc = "ready"
    /\ rate \in Rates
    /\ data \in Buffers
    /\ threshold = Gamma_a(rate)
    /\ result = NoValue
    /\ integ = NoValue
    /\ loud0 = NoValue
    /\ len0 = 0
    /\ nSilent = 0
    /\ CallsIdle
    /\ CommenterIdle
    /\ DurationIdle

\* measure_loudness(data, threshold); the gated value is kept beside it
MeasureLoudness(thr) ==
    /\ lpc = "ready"
    /\ lpc' = "measured"
    /\ threshold' = thr
    /\ result' = measure_loudness(data, rate, thr)
    /\ integ' = IF LongerThanBlock(NumSamples(data), rate)
                THEN _integrated_loudness(data, rate) ELSE NoValue
    /\ UNCHANGED <<rate, data, loud0, len0, nSilent, work, zi, passed, first_call, ncalls, blocks,
                   cvars, dvars>>

\* the caller appends one silent sample to every channel
AppendSilence ==
    /\ lpc = "measured"
    /\ nSilent < MaxSilent
    /\ lpc' = "ready"
    /\ data' = [i \in 1 .. Len(data) |-> Append(data[i], 0)]
    /\ nSilent' = nSilent + 1
    /\ loud0' = IF nSilent = 0 THEN integ ELSE loud0
    /\ len0' = IF nSilent = 0 THEN NumSamples(data) ELSE len0
    /\ threshold' = Gamma_a(rate)
    /\ result' = NoValue
    /\ integ' = NoValue
    /\ UNCHANGED <<rate, work, zi, passed, first_call, ncalls, blocks, cvars, dvars>>

LoudNext ==
    \/ \E thr \in Thresholds(rate) : MeasureLoudness(thr)
    \/ AppendSilence

SpecLoud == LoudInit /\ [][LoudNext]_vars

(***************************************************************************)
(* One meter called again and again, each measure_loudness call taken in   *)
(* its steps: the copy of the caller's buffer, the filtering of the copy   *)
(* in place, the loudness of the filtered samples.  IIRfilter.apply_filter *)
(* (pyloudnorm, outside the repository) is scipy.signal.lfilter(b, a,      *)
(* data) without initial conditions; zi keeps what the delay lines of the  *)
(* two stages held at the end of a call, which is what a filter that kept  *)
(* its state would start the next call from.                               *)
(***************************************************************************)
MaxCalls == 3       \* calls made on one meter

PureBuffers == {Channels(c, base) : c \in {1, 2, 5}, base \in {<<1>>, <<1, 0, 4>>}}

\* the delay lines taken over from the call before
lfilter_zi_kept(left) == left

\* lfilter without zi: every apply_filter call starts from rest
lfilter_zi(left) == <<0, 0>>

\* one stage on one channel, from the delay-line value x0
apply_filter_from(b, xs, x0) ==
    Tup([k \in 1 .. Len(xs) |-> b[1] * xs[k] + b[2] * (IF k > 1 THEN xs[k - 1] ELSE x0)])

\* lines 133-136: input_data[:, ch] = filter_stage.apply_filter(input_data[:, ch])
FilterInPlace(d, z0) ==
    Tup([i \in 1 .. Len(d) |->
            apply_filter_from(HighPass, apply_filter_from(HighShelf, d[i], z0[1]), z0[2])])

\* what the delay lines of the two stages hold after the last channel
DelayLinesAfter(d, z0) ==
    IF Len(d) = 0 \/ Len(d[Len(d)]) = 0 THEN z0
    ELSE LET c == d[Len(d)]
         IN  <<c[Len(c)], apply_filter_from(HighShelf, c, z0[1])[Len(c)]>>

\* input_data = data.copy() (lines 80 and 125): the filter writes to a copy
CopyMade == TRUE

\* lines 138-181 and 51-57 on the filtered channels f
measure_filtered(f, r, thr) ==
    IF LongerThanBlock(NumSamples(f), r)
    THEN PyMax(IntegratedOf(BlockZOf(f, NumBlocks(NumSamples(f), r), r), Gamma_a(r)), thr)
    ELSE IF BroadcastOk(NumChannels(f)) THEN PyMax(LV(BroadcastSum(SingleZOf(f)), 1), thr)
    ELSE ValueError

PureInit ==
    /\ lpc = "ready"
    /\ rate \in Rates
    /\ data \in PureBuffers
    /\ threshold = Gamma_a(rate)
    /\ result = NoValue
    /\ integ = NoValue
    /\ loud0 = NoValue
    /\ len0 = 0
    /\ nSilent = 0
    /\ CallsIdle
    /\ CommenterIdle
    /\ DurationIdle

\* measure_loudness(data, threshold) entered; _momentary_loudness copies the buffer
CallMeter(thr) ==
    /\ lpc = "ready"
    /\ ncalls < MaxCalls
    /\ lpc' = "copied"
    /\ ncalls' = ncalls + 1
    /\ threshold' = thr
    /\ passed' = data
    /\ work' = data
    /\ UNCHANGED <<rate, data, result, integ, loud0, len0, nSilent, zi, first_call,
                   blocks, cvars, dvars>>

\* the two filter stages over every channel of input_data, in place
FilterChannels ==
    /\ lpc = "copied"
    /\ lpc' = "filtered"
    /\ work' = FilterInPlace(work, lfilter_zi(zi))
    /\ zi' = DelayLinesAfter(work, lfilter_zi(zi))
    /\ data' = IF CopyMade THEN data ELSE work'
    /\ UNCHANGED <<rate, threshold, result, integ, loud0, len0, nSilent, passed,
                   first_call, ncalls, blocks, cvars, dvars>>

\* the loudness of the filtered samples returned (or the exception raised)
ReturnLoudness ==
    /\ lpc = "filtered"
    /\ lpc' = "measured"
    /\ result' = measure_filtered(work, rate, threshold)
    /\ work' = <<>>
    /\ first_call' =
           IF ncalls = 1
           THEN [data |-> passed, threshold |-> threshold, result |-> result',
                 between |-> 0]
           ELSE IF passed = first_call.data /\ threshold = first_call.threshold
           THEN first_call
           ELSE [first_call EXCEPT !.between = 1]
    /\ UNCHANGED <<rate, data, threshold, integ, loud0, len0, nSilent, zi, passed,
                   ncalls, blocks, cvars, dvars>>

\* the caller comes back with a buffer: the same one or another
NextBuffer(d) ==
    /\ lpc = "measured"
    /\ ncalls < MaxCalls
    /\ lpc' = "ready"
    /\ data' = d
    /\ passed' = <<>>
    /\ result' = NoValue
    /\ threshold' = Gamma_a(rate)
    /\ UNCHANGED <<rate, integ, loud0, len0, nSilent, work, zi, first_call, ncalls,
                   blocks, cvars, dvars>>

PureNext ==
    \/ \E thr \in Thresholds(rate) : CallMeter(thr)
    \/ FilterChannels
    \/ ReturnLoudness
    \/ \E d \in PureBuffers : NextBuffer(d)

SpecPure == PureInit /\ [][PureNext]_vars

(***************************************************************************)
(* Commenter: helpers of the placement loop                                *)
(***************************************************************************)
fs == 10            \* TTSWrapper.fs (22050 Hz in the source), in samples per second
None == -1          \* an absent t_min / t_max; times are in tenths of a second

GainOne == LV(1, 1)

\* products and quotients of loudness arguments, in lowest terms
LMul(a, b) ==
    LET g1 == GCD(a.n, b.d)
        g2 == GCD(b.n, a.d)
    IN  LV((a.n \div g1) * (b.n \div g2), (a.d \div g2) * (b.d \div g1))
LDiv(a, b) == LMul(a, LV(b.d, b.n))

\* a + e * 10.0 (dB)
PlusTens(a, e) == IF e >= 0 THEN LMul(a, LV(10 ^ e, 1)) ELSE LMul(a, LV(1, 10 ^ (-e)))

\* librosa.resample (outside the repository): int(ceil(n * target_sr / orig_sr))
\* samples, each taken from the nearest earlier input sample
Resample(y, orig_sr, target_sr) ==
    Tup([k \in 1 .. Ceil(Len(y) * target_sr, orig_sr) |->
            y[((k - 1) * orig_sr) \div target_sr + 1]])

\* TTSWrapper.__call__: the waveform of a text, with its leading and trailing silence
TTS(text) ==
    CASE text = "1." -> <<0, 1, 0>>
      [] text = "G." -> <<0, 1, 1>>
      [] text = "B. flat minor." -> <<1, 0, 1, 0, 1, 0>>

\* librosa.effects.trim(...)[0] (outside the repository): the signal from its first
\* to its last non-silent sample
Trim(y) ==
    LET nz == {k \in 1 .. Len(y) : y[k] # 0}
        first == CHOOSE k \in nz : \A j \in nz : k <= j
        last == CHOOSE k \in nz : \A j \in nz : k >= j
    IN  IF nz = {} THEN y ELSE SubSeq(y, first, last)

\* libtsm.tsm.hps_tsm (outside the repository): ceil(alpha * N) samples, pitch and
\* level kept; alpha = <<num, den>>
hps_tsm(y, alpha) ==
    Tup([k \in 1 .. Ceil(alpha[1] * Len(y), alpha[2]) |->
            y[((k - 1) * alpha[2]) \div alpha[1] + 1]])

Reduced(n, d) == LET g == GCD(n, d) IN IF g = 0 THEN <<n, d>> ELSE <<n \div g, d \div g>>

\* the assertion of _modify_comment_duration
DurationBoundsOk(t_min, t_max) == t_min = None \/ t_max = None \/ t_min <= t_max

\* lines 148-150
AssertBounds(t_min, t_max) == DurationBoundsOk(t_min, t_max)

\* _modify_comment_duration lines 152-158: alpha, or the exception raised.
\* speed = <<num, den>>; t_comment = alpha * len / fs seconds = tc[1] / tc[2] tenths
StretchFactor(len, speed, t_min, t_max) ==
    LET a0 == <<speed[2], speed[1]>>
        tc == <<a0[1] * len * 10, a0[2] * fs>>
    IN  IF t_min # None /\ tc[1] < t_min * tc[2]
        THEN IF tc[1] = 0 THEN [err |-> "ZeroDivisionError", alpha |-> a0]
             ELSE [err |-> "none", alpha |-> Reduced(a0[1] * t_min * tc[2], a0[2] * tc[1])]
        ELSE IF t_max # None /\ tc[1] > t_max * tc[2]
        THEN [err |-> "none", alpha |-> Reduced(a0[1] * t_max * tc[2], a0[2] * tc[1])]
        ELSE [err |-> "none", alpha |-> Reduced(a0[1], a0[2])]

\* if alpha != 1.0
NeedsStretch(alpha) == alpha[1] # alpha[2]

\* the stretch applied whatever alpha is
AlwaysStretch(alpha) == TRUE

\* line 160
StretchCalled(alpha) == NeedsStretch(alpha)

\* _modify_comment_duration: what it raises, alpha, whether hps_tsm ran, the clip
_modify_comment_duration(comment_wav, speed, t_min, t_max) ==
    IF ~AssertBounds(t_min, t_max)
    THEN [err |-> "AssertionError", alpha |-> <<1, 1>>, stretched |-> FALSE,
          wav |-> comment_wav]
    ELSE LET sf == StretchFactor(Len(comment_wav), speed, t_min, t_max)
         IN  IF sf.err # "none"
             THEN [err |-> sf.err, alpha |-> sf.alpha, stretched |-> FALSE,
                   wav |-> comment_wav]
             ELSE [err |-> "none", alpha |-> sf.alpha,
                   stretched |-> StretchCalled(sf.alpha),
                   wav |-> IF StretchCalled(sf.alpha)
                           THEN hps_tsm(comment_wav, sf.alpha) ELSE comment_wav]

\* _get_comment_start: round((t_start + pos_offset_abs) * fs - pos_rel * len(comment_wav)),
\* pos_rel = <<num, den>>
_get_comment_start(len, t_start, pos_rel, pos_offset_abs) ==
    RoundHalfEven((t_start + pos_offset_abs) * fs * pos_rel[2] - 10 * pos_rel[1] * len,
                  10 * pos_rel[2])

\* Python's slice a[lo:hi] of a sequence of length n: the (0-based) bounds
SliceStart(lo, n) == IF lo < 0 THEN (IF lo + n < 0 THEN 0 ELSE lo + n)
                     ELSE (IF lo > n THEN n ELSE lo)
SliceLen(lo, hi, n) ==
    LET a == SliceStart(lo, n)
        b == SliceStart(hi, n)
    IN  IF b > a THEN b - a ELSE 0
PySlice(s, lo, hi) ==
    SubSeq(s, SliceStart(lo, Len(s)) + 1, SliceStart(lo, Len(s)) + SliceLen(lo, hi, Len(s)))

\* measure_loudness of the mono buffer ys multiplied by a gain g with g^2 = g2: the
\* filter is linear, so every z is multiplied by g2
measure_loudness_scaled(ys, thr, g2) ==
    IF LongerThanBlock(Len(ys), fs)
    THEN PyMax(LMul(g2, IntegratedOf(BlockZ(<<ys>>, fs), LDiv(Gamma_a(fs), g2))), thr)
    ELSE PyMax(LMul(g2, SingleLoudness(<<ys>>)), thr)

\* the loudness of ys before the clamp max(., threshold)
Unclamped(ys) ==
    IF LongerThanBlock(Len(ys), fs) THEN _integrated_loudness(<<ys>>, fs)
    ELSE SingleLoudness(<<ys>>)

\* w * (local + offset_loc) + (1 - w) * (global + offset_glob) for w in {0, 1};
\* the offsets are e * 10 dB
TargetLoudness(w, local, e_loc, global, e_glob) ==
    IF w = 1 THEN PlusTens(local, e_loc) ELSE PlusTens(global, e_glob)

\* the clip left at its own level
UnitGain(input_loudness, target_loudness) == GainOne

\* pyloudnorm.normalize.loudness: gain = 10^((target - input) / 20), here gain^2
NormalizeGain(input_loudness, target_loudness) == LDiv(target_loudness, input_loudness)

(***************************************************************************)
(* Commenter.__call__, one action per statement group.  A sample of        *)
(* comment_track is the sum over the comments m of gain_m * (samples of    *)
(* clip m added there); the gains are irrational in general, so a sample   *)
(* is carried as the vector of the coefficients of gain_1 .. gain_M.       *)
(***************************************************************************)
ZeroVec == [k \in 1 .. MaxComments |-> 0]
NoNorm == [x_loudness_local |-> NoValue, c_m_loudness |-> NoValue,
           c_m_loudness_target |-> NoValue, gain2 |-> NoValue, measured |-> NoValue]
NoCalls == [resample |-> 0, measure_loudness |-> 0, tts |-> 0, trim |-> 0, hps_tsm |-> 0]

CommenterInit(cfgs) ==
    /\ pc = "start"
    /\ cfg \in cfgs
    /\ x_resampled = <<>>
    /\ x_loudness_global = NoValue
    /\ comment_track = <<>>
    /\ padding_left = 0
    /\ comments = <<>>
    /\ c_m = <<>>
    /\ n_m = 0
    /\ n_m_end = 0
    /\ norm = NoNorm
    /\ placed = <<>>
    /\ calls = NoCalls
    /\ err = "none"
    /\ out = <<>>
    /\ MeterIdle
    /\ DurationIdle

Fail(e) == pc' = "failed" /\ err' = e

\* np.pad(buf, pad_width=(left, right), constant_values=0.0) of the comment track
PadTrack(buf, left, right) ==
    Tup([i \in 1 .. left |-> ZeroVec]) \o buf \o Tup([i \in 1 .. right |-> ZeroVec])

\* the original signal left as it is
PadSignalForgotten(buf, left, right) == buf

\* np.pad(buf, pad_width=(left, right), constant_values=0.0) of the original signal
PadSignal(buf, left, right) == Zeros(left) \o buf \o Zeros(right)

\* += of one sample of gain_m * clip
AddTo(v, m, a) == [v EXCEPT ![m] = @ + a]

\* comment_track[n_m:n_m_end] += c_m_normalized on the slice of sl samples from
\* (0-based) st; a clip of one sample is broadcast
AddClip(track, st, sl, clip, m) ==
    Tup([i \in 1 .. Len(track) |->
            IF st < i /\ i <= st + sl
            THEN AddTo(track[i], m, clip[IF Len(clip) = 1 THEN 1 ELSE i - st])
            ELSE track[i]])

\* lines 63-64
ResampleInput ==
    /\ pc = "start"
    /\ x_resampled' = Resample(cfg.x_orig, cfg.x_fs, fs)
    /\ calls' = [calls EXCEPT !.resample = @ + 1]
    /\ pc' = "resampled"
    /\ UNCHANGED <<cfg, x_loudness_global, comment_track, padding_left, comments, c_m,
                   n_m, n_m_end, norm, placed, err, out, lvars, dvars>>

\* lines 66-67
MeasureGlobal ==
    /\ pc = "resampled"
    /\ x_loudness_global' = measure_loudness(<<x_resampled>>, fs, Gamma_a(fs))
    /\ calls' = [calls EXCEPT !.measure_loudness = @ + 1]
    /\ pc' = "measured"
    /\ UNCHANGED <<cfg, x_resampled, comment_track, padding_left, comments, c_m,
                   n_m, n_m_end, norm, placed, err, out, lvars, dvars>>

\* lines 69-71
InitTrack ==
    /\ pc = "measured"
    /\ comment_track' = Tup([i \in 1 .. Len(x_resampled) |-> ZeroVec])
    /\ padding_left' = 0
    /\ pc' = "loop"
    /\ UNCHANGED <<cfg, x_resampled, x_loudness_global, comments, c_m,
                   n_m, n_m_end, norm, placed, calls, err, out, lvars, dvars>>

\* lines 76-78: the loop takes the next entry of the comment list (drawn here from
\* the entries the call may hold) and synthesizes its text
Synthesize(entry) ==
    /\ pc = "loop"
    /\ Len(comments) < MaxComments
    /\ comments' = Append(comments, entry)
    /\ c_m' = TTS(entry[2])
    /\ calls' = [calls EXCEPT !.tts = @ + 1]
    /\ pc' = "synthesized"
    /\ UNCHANGED <<cfg, x_resampled, x_loudness_global, comment_track, padding_left,
                   n_m, n_m_end, norm, placed, err, out, lvars, dvars>>

\* lines 80-81
TrimClip ==
    /\ pc = "synthesized"
    /\ c_m' = Trim(c_m)
    /\ calls' = [calls EXCEPT !.trim = @ + 1]
    /\ pc' = "trimmed"
    /\ UNCHANGED <<cfg, x_resampled, x_loudness_global, comment_track, padding_left,
                   comments, n_m, n_m_end, norm, placed, err, out, lvars, dvars>>

\* line 83
ModifyDuration ==
    /\ pc = "trimmed"
    /\ LET r == _modify_comment_duration(c_m, cfg.speed, cfg.t_min, cfg.t_max)
       IN  IF r.err # "none"
           THEN Fail(r.err) /\ UNCHANGED <<c_m, calls>>
           ELSE /\ c_m' = r.wav
                /\ calls' = [calls EXCEPT !.hps_tsm = @ + (IF r.stretched THEN 1 ELSE 0)]
                /\ pc' = "adjusted"
                /\ UNCHANGED err
    /\ UNCHANGED <<cfg, x_resampled, x_loudness_global, comment_track, padding_left,
                   comments, n_m, n_m_end, norm, placed, out, lvars, dvars>>

\* lines 84-86
GetStart ==
    /\ pc = "adjusted"
    /\ n_m' = _get_comment_start(Len(c_m), comments[Len(comments)][1],
                                 cfg.pos_rel, cfg.pos_offset_abs) + padding_left
    /\ n_m_end' = n_m' + Len(c_m)
    /\ pc' = "started"
    /\ UNCHANGED <<cfg, x_resampled, x_loudness_global, comment_track, padding_left,
                   comments, c_m, norm, placed, calls, err, out, lvars, dvars>>

\* the clips written so far move with the samples that a left pad shifts
Shifted(ps, add) ==
    Tup([i \in 1 .. Len(ps) |->
            [ps[i] EXCEPT !.n = @ + add, !.first = IF @ < 0 THEN @ ELSE @ + add]])

\* lines 88-105; np.pad raises ValueError on a negative pad width
PadLeft ==
    /\ pc = "started"
    /\ IF n_m < 0
       THEN LET padding_left_add == Abs(n_m) - padding_left
            IN  IF padding_left_add < 0
                THEN /\ Fail("ValueError")
                     /\ UNCHANGED <<comment_track, x_resampled, n_m, n_m_end,
                                    padding_left, placed>>
                ELSE /\ comment_track' = PadTrack(comment_track, padding_left_add, 0)
                     /\ x_resampled' = PadSignal(x_resampled, padding_left_add, 0)
                     /\ n_m' = n_m + padding_left_add
                     /\ n_m_end' = n_m_end + padding_left_add
                     /\ padding_left' = padding_left + padding_left_add
                     /\ placed' = Shifted(placed, padding_left_add)
                     /\ pc' = "leftdone"
                     /\ UNCHANGED err
       ELSE /\ pc' = "leftdone"
            /\ UNCHANGED <<comment_track, x_resampled, n_m, n_m_end, padding_left,
                           placed, err>>
    /\ UNCHANGED <<cfg, x_loudness_global, comments, c_m, norm, calls, out, lvars, dvars>>

\* lines 107-121
PadRight ==
    /\ pc = "leftdone"
    /\ IF n_m_end >= Len(comment_track)
       THEN LET padding_right_add == n_m_end - (Len(comment_track) - 1)
            IN  /\ comment_track' = PadTrack(comment_track, 0, padding_right_add)
                /\ x_resampled' = PadSignal(x_resampled, 0, padding_right_add)
       ELSE UNCHANGED <<comment_track, x_resampled>>
    /\ pc' = "rightdone"
    /\ UNCHANGED <<cfg, x_loudness_global, padding_left, comments, c_m, n_m, n_m_end,
                   norm, placed, calls, err, out, lvars, dvars>>

\* lines 123-129: the two measurements, the target, the gain of normalize.loudness
\* and (for the record) the loudness that the gain-adjusted clip measures at
Normalize ==
    /\ pc = "rightdone"
    /\ LET x_loudness_local ==
               measure_loudness(<<PySlice(x_resampled, n_m, n_m_end)>>, fs, Gamma_a(fs))
           c_m_loudness == measure_loudness(<<c_m>>, fs, Gamma_a(fs))
           target == TargetLoudness(cfg.w_glob_loc, x_loudness_local, cfg.offset_loc,
                                    x_loudness_global, cfg.offset_glob)
           gain2 == NormalizeGain(c_m_loudness, target)
       IN  norm' = [x_loudness_local |-> x_loudness_local,
                    c_m_loudness |-> c_m_loudness,
                    c_m_loudness_target |-> target,
                    gain2 |-> gain2,
                    measured |-> measure_loudness_scaled(c_m, Gamma_a(fs), gain2)]
    /\ calls' = [calls EXCEPT !.measure_loudness = @ + 2]
    /\ pc' = "normalized"
    /\ UNCHANGED <<cfg, x_resampled, x_loudness_global, comment_track, padding_left,
                   comments, c_m, n_m, n_m_end, placed, err, out, lvars, dvars>>

\* line 131, with Python's slice bounds; numpy raises ValueError when the clip can
\* not be broadcast to the slice
Accumulate ==
    /\ pc = "normalized"
    /\ LET n == Len(comment_track)
           st == SliceStart(n_m, n)
           sl == SliceLen(n_m, n_m_end, n)
       IN  IF sl = Len(c_m) \/ Len(c_m) = 1
           THEN /\ comment_track' = AddClip(comment_track, st, sl, c_m, Len(comments))
                /\ placed' = Append(placed, [nominal |-> n_m - padding_left,
                                             n |-> n_m,
                                             first |-> IF sl > 0 THEN st ELSE -1,
                                             clip |-> c_m])
                /\ pc' = "loop"
                /\ UNCHANGED err
           ELSE Fail("ValueError") /\ UNCHANGED <<comment_track, placed>>
    /\ UNCHANGED <<cfg, x_resampled, x_loudness_global, padding_left, comments, c_m,
                   n_m, n_m_end, norm, calls, out, lvars, dvars>>

\* line 134, after the last comment of the list
Superpose ==
    /\ pc = "loop"
    /\ IF Len(x_resampled) = Len(comment_track)
       THEN /\ out' = [x_commented |->
                          Tup([i \in 1 .. Len(x_resampled) |->
                                  [x |-> x_resampled[i], c |-> comment_track[i]]])]
            /\ pc' = "mixed"
            /\ UNCHANGED err
       ELSE Fail("ValueError") /\ UNCHANGED out
    /\ UNCHANGED <<cfg, x_resampled, x_loudness_global, comment_track, padding_left,
                   comments, c_m, n_m, n_m_end, norm, placed, calls, lvars, dvars>>

\* lines 137-145
Return(return_comment_track) ==
    /\ pc = "mixed"
    /\ out' = [x_commented |-> Resample(out.x_commented, fs, cfg.x_fs),
               comment_track |-> IF return_comment_track
                                 THEN Resample(comment_track, fs, cfg.x_fs) ELSE <<>>,
               return_comment_track |-> return_comment_track]
    /\ calls' = [calls EXCEPT !.resample = @ + (IF return_comment_track THEN 2 ELSE 1)]
    /\ pc' = "done"
    /\ UNCHANGED <<cfg, x_resampled, x_loudness_global, comment_track, padding_left,
                   comments, c_m, n_m, n_m_end, norm, placed, err, lvars, dvars>>

Next ==
    \/ ResampleInput
    \/ MeasureGlobal
    \/ InitTrack
    \/ \E entry \in cfg.pool : Synthesize(entry)
    \/ TrimClip
    \/ ModifyDuration
    \/ GetStart
    \/ PadLeft
    \/ PadRight
    \/ Normalize
    \/ Accumulate
    \/ Superpose
    \/ \E return_comment_track \in BOOLEAN : Return(return_comment_track)

\* the arguments of the calls explored for the placement of the clips; times in
\* tenths of a second, speed and pos_rel as <<num, den>>, offsets in tens of dB
Texts == {"1.", "G.", "B. flat minor."}
Inputs == {[x_orig |-> <<1, 1, 1, 1, 1, 1>>, x_fs |-> 10],
           [x_orig |-> <<1, 0, 0, 1>>, x_fs |-> 20]}
Durations == {[speed |-> <<1, 1>>, t_min |-> None, t_max |-> None],
              [speed |-> <<1, 1>>, t_min |-> 3, t_max |-> 2],
              [speed |-> <<2, 1>>, t_min |-> 1, t_max |-> 3]}
Placements == {[pos_rel |-> <<0, 1>>, pos_offset_abs |-> 0],
               [pos_rel |-> <<0, 1>>, pos_offset_abs |-> -4],
               [pos_rel |-> <<1, 2>>, pos_offset_abs |-> 0],
               [pos_rel |-> <<1, 1>>, pos_offset_abs |-> -4]}
Config(i, d, p, e_loc, e_glob, w, pool) ==
    [x_orig |-> i.x_orig, x_fs |-> i.x_fs, speed |-> d.speed, t_min |-> d.t_min,
     t_max |-> d.t_max, pos_rel |-> p.pos_rel, pos_offset_abs |-> p.pos_offset_abs,
     offset_loc |-> e_loc, offset_glob |-> e_glob, w_glob_loc |-> w, pool |-> pool]
Configs == {Config(i, d, p, 0, 0, 1, {0, 2, 6} \X Texts) :
               i \in Inputs, d \in Durations, p \in Placements}

Init == CommenterInit(Configs)
Spec == Init /\ [][Next]_vars

\* the calls explored for the loudness of the clips: a loud and a silent recording,
\* either weighting, offsets of 0 dB and -10 dB
NormInputs == {[x_orig |-> <<1, 1, 1, 1, 1, 1>>, x_fs |-> 10],
               [x_orig |-> <<0, 0, 0, 0, 0, 0>>, x_fs |-> 10]}
NormConfigs ==
    {Config(i, [speed |-> <<1, 1>>, t_min |-> None, t_max |-> None],
            [pos_rel |-> <<0, 1>>, pos_offset_abs |-> p], e_loc, e_glob, w,
            {0, 4} \X Texts) :
        i \in NormInputs, p \in {-2, 0}, e_loc \in {-1, 0}, e_glob \in {-1, 0}, w \in {0, 1}}

NormInit == CommenterInit(NormConfigs)
SpecNorm == NormInit /\ [][Next]_vars

(***************************************************************************)
(* _modify_comment_duration called on its own                              *)
(***************************************************************************)
DurClips == UNION {[1 .. k -> {0, 1}] : k \in 0 .. MaxClip}
DurArgs == [comment_wav : DurClips,
            speed : {<<1, 2>>, <<1, 1>>, <<2, 1>>},
            t_min : {None, 0, 1, 3},
            t_max : {None, 1, 2, 3}]

DurInit ==
    /\ dpc = "ready"
    /\ dargs \in DurArgs
    /\ dres = <<>>
    /\ MeterIdle
    /\ CommenterIdle

ModifyCommentDuration ==
    /\ dpc = "ready"
    /\ dres' = _modify_comment_duration(dargs.comment_wav, dargs.speed,
                                        dargs.t_min, dargs.t_max)
    /\ dpc' = "returned"
    /\ UNCHANGED <<dargs, lvars, cvars>>

DurNext == ModifyCommentDuration

SpecDur == DurInit /\ [][DurNext]_vars

(***************************************************************************)
(* _momentary_loudness on mono buffers that grow sample by sample, at      *)
(* rates where the gating step is a fraction of a sample (5), one sample   *)
(* (10) and two samples (20)                                               *)
(***************************************************************************)
MaxBlockLen == 11   \* samples of a buffer handed to _momentary_loudness

BlockRates == {5, 10, 20}

\* lines 149-162: the range [lower, upper) of every block j and the number of
\* samples that input_data[lower:upper] holds
BlockRanges(numSamples, r) ==
    Tup([j \in 1 .. NumBlocks(numSamples, r) |->
            [lower |-> BlockLower(j - 1, r),
             upper |-> BlockUpper(j - 1, r),
             summed |-> SliceLen(BlockLower(j - 1, r), BlockUpper(j - 1, r), numSamples)]])

BlocksInit ==
    /\ lpc = "ready"
    /\ rate \in BlockRates
    /\ data \in {<<<<0>>>>, <<<<1>>>>}
    /\ threshold = Gamma_a(rate)
    /\ result = NoValue
    /\ integ = NoValue
    /\ loud0 = NoValue
    /\ len0 = 0
    /\ nSilent = 0
    /\ CallsIdle
    /\ CommenterIdle
    /\ DurationIdle

\* the caller's buffer is one sample longer
GrowBuffer(v) ==
    /\ lpc = "ready"
    /\ NumSamples(data) < MaxBlockLen
    /\ data' = <<Append(data[1], v)>>
    /\ UNCHANGED <<lpc, rate, threshold, result, integ, loud0, len0, nSilent, work, zi,
                   passed, first_call, ncalls, blocks, cvars, dvars>>

\* _momentary_loudness(data): the loudness values "lower" are kept in result (a
\* sequence for a buffer longer than a block), z in work
MomentaryLoudness ==
    /\ lpc = "ready"
    /\ lpc' = "returned"
    /\ IF LongerThanBlock(NumSamples(data), rate)
       THEN /\ blocks' = BlockRanges(NumSamples(data), rate)
            /\ work' = BlockZ(data, rate)
            /\ result' = BlockLoudnessOf(work')
       ELSE /\ blocks' = <<>>
            /\ work' = SingleZ(data)
            /\ result' = SingleLoudness(data)
    /\ UNCHANGED <<rate, data, threshold, integ, loud0, len0, nSilent, zi, passed,
                   first_call, ncalls, cvars, dvars>>

BlocksNext ==
    \/ \E v \in {0, 1} : GrowBuffer(v)
    \/ MomentaryLoudness

SpecBlocks == BlocksInit /\ [][BlocksNext]_vars

(***************************************************************************)
(* Properties of the placement loop (specification Spec)                   *)
(***************************************************************************)

\* C1: after every iteration the first sample of every comment placed so far sits
\* at buffer index nominal_start + left_pad_offset (a negative start index having
\* been made up for by a left pad of exactly the deficit).
C1_FirstSampleAtNominalPlusOffset ==
    \A m \in 1 .. Len(placed) : placed[m].first = placed[m].nominal + padding_left

\* C2: at the moment a clip is accumulated its write window satisfies
\* 0 <= n and n_end = n + len(clip) <= len(buffer).
C2_WriteWindowInsideBuffer ==
    pc = "normalized" =>
        /\ 0 <= n_m
        /\ n_m_end = n_m + Len(c_m)
        /\ n_m_end <= Len(comment_track)

\* C3: the original-signal buffer and the comment track have the same length after
\* initialisation and after every padding step, and the combined output and the
\* returned comment track have the same length.
C3_BuffersSameLength ==
    /\ pc \notin {"start", "resampled", "measured"} =>
           Len(x_resampled) = Len(comment_track)
    /\ pc = "mixed" => Len(out.x_commented) = Len(comment_track)
    /\ (pc = "done" /\ out.return_comment_track) =>
           Len(out.x_commented) = Len(out.comment_track)

\* a call that padded on both sides and returned both signals
C3_PaddedBothSidesAndReturned ==
    /\ pc = "done"
    /\ out.return_comment_track
    /\ padding_left > 0
    /\ Len(comment_track) > padding_left + Len(Resample(cfg.x_orig, cfg.x_fs, fs))
    /\ Len(placed) = MaxComments

\* the sum of the gain-adjusted samples of the clips whose window [n, n_end) covers
\* the (1-based) sample i of the track
CoveringSum(i) ==
    [m \in 1 .. MaxComments |->
        IF /\ m <= Len(placed)
           /\ placed[m].n <= i - 1
           /\ i - 1 < placed[m].n + Len(placed[m].clip)
        THEN placed[m].clip[i - placed[m].n]
        ELSE 0]

\* C4: after any comment sequence every sample of the comment track is the sum of
\* the gain-adjusted samples of all clips whose window covers it, zero where none does.
C4_TrackIsSumOfCoveringClips ==
    pc \in {"loop", "mixed", "done"} =>
        \A i \in 1 .. Len(comment_track) : comment_track[i] = CoveringSum(i)

InvalidBounds == cfg.t_min # None /\ cfg.t_max # None /\ cfg.t_min > cfg.t_max

\* C5 as stated: with t_min > t_max the call fails before any processing begins
\* (no resampling, loudness measurement, synthesis or trimming), for every comment
\* list including the empty one.
C5_FailsBeforeAnyProcessing ==
    InvalidBounds => (calls = NoCalls /\ pc \in {"start", "failed"})

(***************************************************************************)
(* Properties of the meter (specification SpecLoud)                        *)
(***************************************************************************)
AllZero(d) == \A i \in 1 .. Len(d) : \A k \in 1 .. Len(d[i]) : d[i][k] = 0

\* C6: for a buffer of C channels (1 <= C <= 5) of at most block_size * rate samples,
\* measure_loudness returns max(-0.691 + 10 log10(sum over i < C of G[i] * z[i]),
\* threshold), the per-channel weighted sum of the per-block formula.
C6_SingleBlockWeightedSum ==
    (lpc = "measured" /\ ~LongerThanBlock(NumSamples(data), rate)) =>
        LEq(result, PyMax(LV(WeightedSum(SingleZ(data)), 1), threshold))

\* C7: for a buffer of all-zero samples of any length measure_loudness returns
\* exactly the supplied threshold.
C7_SilenceMeasuresThreshold ==
    (lpc = "measured" /\ AllZero(data)) => result = threshold

\* a buffer that was longer than one block and louder than -70 before silence was
\* appended to it, measured again
LoudBufferExtended ==
    /\ lpc = "measured"
    /\ nSilent > 0
    /\ LGt(loud0, Gamma_a(rate))

\* every block that the buffer has beyond the blocks of its first len0 samples, or
\* that reaches beyond those samples, has a momentary loudness below -70
NewBlocksBelowGate ==
    LET l == BlockLoudness(data, rate)
    IN  \A j \in 1 .. Len(l) :
            (j > NumBlocks(len0, rate) \/ BlockUpper(j - 1, rate) > len0) =>
                ~LGe(l[j], Gamma_a(rate))

\* C8 as stated: appending any number of silent samples to a buffer longer than one
\* block whose integrated loudness is above -70 does not change the integrated
\* loudness.
C8_SilenceNeverChangesIntegrated ==
    LoudBufferExtended => LEq(integ, loud0)

\* C8, as the code has it: the integrated loudness is unchanged when every block
\* that the appended samples add or reach into is below the absolute gate of -70
\* (a block that straddles the end of the loud part, or holds the ringing of the
\* filter, can pass the gates and change the result).
C8_GatedOutBlocksLeaveIntegrated ==
    (LoudBufferExtended /\ NewBlocksBelowGate) => LEq(integ, loud0)

\* silence appended more than once with every new block gated out
C8_SilentBlocksAppended ==
    /\ LoudBufferExtended
    /\ NewBlocksBelowGate
    /\ nSilent >= 2

(***************************************************************************)
(* Properties of the loudness normalisation (specification SpecNorm)       *)
(***************************************************************************)

\* the blocks of the clip that pass the absolute gate are the same after the gain
\* (of square g2) as before it, or none passes after it
GatesKept(ys, g2) ==
    ~LongerThanBlock(Len(ys), fs) \/
    LET l == BlockLoudness(<<ys>>, fs)
        after == {j \in 1 .. Len(l) : LGe(LMul(g2, l[j]), Gamma_a(fs))}
    IN  \/ after = {}
        \/ /\ after = AbsGate(l, Gamma_a(fs))
           /\ \A j \in 1 .. Len(l) :
                  LGt(LMul(g2, l[j]), Gamma_a(fs)) <=> LGt(l[j], Gamma_a(fs))

\* C9 as stated: measure_loudness of the gain-adjusted clip equals the target
\* loudness, for all offsets and weights, including targets at or below -70.
C9_MeasuredEqualsTarget ==
    pc = "normalized" => LEq(norm.measured, norm.c_m_loudness_target)

\* C9, as the code has it: the target is w * (local + offset_loc) + (1 - w) *
\* (global + offset_glob) with global measured once on the resampled recording, and
\* measure_loudness of the gain-adjusted clip equals max(target, -70), provided the
\* clip's own loudness is not clamped and the gain does not change which of the
\* clip's blocks pass the -70 gate (unless none passes any more).
C9_MeasuredEqualsClampedTarget ==
    pc = "normalized" =>
        /\ x_loudness_global =
               measure_loudness(<<Resample(cfg.x_orig, cfg.x_fs, fs)>>, fs, Gamma_a(fs))
        /\ norm.c_m_loudness_target =
               TargetLoudness(cfg.w_glob_loc, norm.x_loudness_local, cfg.offset_loc,
                              x_loudness_global, cfg.offset_glob)
        /\ (LGe(Unclamped(c_m), Gamma_a(fs)) /\ GatesKept(c_m, norm.gain2)) =>
               LEq(norm.measured, PyMax(norm.c_m_loudness_target, Gamma_a(fs)))

\* a clip of several blocks normalised to a target below -70
C9_TargetBelowThreshold ==
    /\ pc = "normalized"
    /\ LGe(Unclamped(c_m), Gamma_a(fs))
    /\ GatesKept(c_m, norm.gain2)
    /\ LLt(norm.c_m_loudness_target, Gamma_a(fs))
    /\ LongerThanBlock(Len(c_m), fs)

(***************************************************************************)
(* Properties of the duration adjustment (specification SpecDur)           *)
(***************************************************************************)

\* len(clip) / (speed * rate) clamped into [t_min, t_max], in tenths of a second
ClampedDuration(len, speed, t_min, t_max) ==
    LET d == <<len * 10 * speed[2], speed[1] * fs>>
    IN  IF t_min # None /\ d[1] < t_min * d[2] THEN <<t_min, 1>>
        ELSE IF t_max # None /\ d[1] > t_max * d[2] THEN <<t_max, 1>>
        ELSE d

DurationAsClaimed ==
    LET len == Len(dargs.comment_wav)
        c == ClampedDuration(len, dargs.speed, dargs.t_min, dargs.t_max)
    IN  /\ dres.err = "none"
        /\ dres.alpha[1] * len * 10 * c[2] = c[1] * dres.alpha[2] * fs
        /\ dres.stretched <=> dres.alpha[1] # dres.alpha[2]
        /\ ~dres.stretched => dres.wav = dargs.comment_wav
        /\ (dargs.speed = <<1, 1>> /\ c = <<len * 10, fs>>) => ~dres.stretched

\* C10 as stated: for any speed > 0, clip length and bounds with t_min <= t_max,
\* alpha * len(clip) / rate equals len(clip) / (speed * rate) clamped into
\* [t_min, t_max], and the stretch is invoked only if alpha != 1.0.
C10_AnyClipClamped ==
    (dpc = "returned" /\ DurationBoundsOk(dargs.t_min, dargs.t_max)) => DurationAsClaimed

\* C10, as the code has it: the same for every non-empty clip (an empty clip with
\* t_min > 0 divides by its zero duration).
C10_NonEmptyClipClamped ==
    (/\ dpc = "returned"
     /\ DurationBoundsOk(dargs.t_min, dargs.t_max)
     /\ Len(dargs.comment_wav) > 0) => DurationAsClaimed

\* a clip longer than t_max at its speed, stretched
C10_LongClipShortened ==
    /\ dpc = "returned"
    /\ DurationBoundsOk(dargs.t_min, dargs.t_max)
    /\ dargs.t_min # None
    /\ dargs.t_max # None
    /\ Len(dargs.comment_wav) * 10 * dargs.speed[2] > dargs.t_max * dargs.speed[1] * fs
    /\ dres.stretched
    /\ Len(dres.wav) < Len(dargs.comment_wav)

(***************************************************************************)
(* Properties of repeated calls on one meter (specification SpecPure)      *)
(***************************************************************************)

\* C11: two calls on the same meter with the same input have the same outcome
\* whatever calls were made in between, and the caller's buffer is unmodified
\* during and after each call, on the single-block and on the gated path.
C11_SameOutcomeBufferUntouched ==
    /\ lpc \in {"copied", "filtered", "measured"} => data = passed
    /\ (/\ lpc = "measured"
        /\ passed = first_call.data
        /\ threshold = first_call.threshold) => result = first_call.result
    /\ lpc = "measured" => result = measure_loudness(passed, rate, threshold)

\* the first buffer measured again on the gated path after a call on another input
C11_MeasuredAgainAfterOtherCall ==
    /\ lpc = "measured"
    /\ ncalls = MaxCalls
    /\ first_call.between = 1
    /\ passed = first_call.data
    /\ threshold = first_call.threshold
    /\ LongerThanBlock(NumSamples(passed), rate)
    /\ LGt(result, threshold)

(***************************************************************************)
(* Properties of the gating blocks (specification SpecBlocks)              *)
(***************************************************************************)

\* C12: for every buffer longer than one block, every gating block has its sample
\* range [lower, upper) inside the buffer (upper <= numSamples), so that its energy
\* is summed over a full T_g * rate samples.
C12_BlocksInsideBuffer ==
    (lpc = "returned" /\ LongerThanBlock(NumSamples(data), rate)) =>
        \A j \in 1 .. Len(blocks) :
            /\ blocks[j].upper <= NumSamples(data)
            /\ 10 * blocks[j].summed = 4 * rate

====
